---- MODULE Spec2Model ----
(***************************************************************************)
(* Sale creation of the inventory system: services/saleService.js          *)
(* (createSale, stockReduction), repositories/productRepository.js         *)
(* (updateProduct), repositories/saleRepository.js (createSale),           *)
(* models/index.js (ProductSale) and controllers/saleController.js         *)
(* (createSale), over a relational store.                                  *)
(*                                                                         *)
(* The store is the one the README names (MySQL through Sequelize):        *)
(*  - a transaction runs on one connection, which executes its queries in  *)
(*    the order they were issued;                                          *)
(*  - a plain SELECT inside a transaction takes no lock and reads the      *)
(*    snapshot taken at the transaction's first read;                      *)
(*  - an UPDATE locks the row until the transaction ends, works on the     *)
(*    latest version of the row, and reports the number of rows whose      *)
(*    values it changed;                                                   *)
(*  - when two transactions wait for each other's row lock the store       *)
(*    rolls one of them back and fails its waiting UPDATE; statements that *)
(*    connection executes afterwards run outside any transaction and are   *)
(*    committed one by one;                                                *)
(*  - Sequelize refuses a query given a transaction on which rollback()    *)
(*    or commit() has already been called.                                 *)
(*                                                                         *)
(* createSale starts every item's callback at once (Promise.all over       *)
(* saleItems.map): every item's SELECT is issued before any result is      *)
(* back, so on the connection all SELECTs precede all UPDATEs, and a       *)
(* ROLLBACK is queued behind the UPDATEs issued before the first failure.  *)
(*                                                                         *)
(* Specifications: Spec (two createSale calls), RaceSpec (its runs in      *)
(* which both calls read before either writes), LiveSpec (Spec with the    *)
(* scheduling of the event loop and the store), MixSpec (one createSale    *)
(* call and one catalog update), SaleApiSpec (the sale routes, the sale    *)
(* reads and the deletes) and ProductSpec (product create and update).     *)
(***************************************************************************)
EXTENDS Integers, Sequences, FiniteSets, TLC

\* ---------------------------------------------------------------- bounds
MaxStock == 2
MaxQty == 2
MaxItems == 2

Calls == {1, 2}
ProductIds == {1, 2}
\* ids a request may name: the stored products and one id that is not stored
ItemIds == ProductIds \cup {9999}

VARIABLES
  products,    \* committed products table: id -> [stock, salePrice]
  sales,       \* committed sales table (headers)
  joins,       \* committed products_sales table
  nextSaleId,  \* AUTO_INCREMENT of sales (not rolled back)
  pc,          \* position of each createSale call
  items,       \* saleItems of each call
  fetched,     \* per item: the Product instance findByPk returned (or NULL)
  uq,          \* UPDATEs issued on the connection and not yet executed
  done,        \* items whose callback has resolved (their UPDATE succeeded)
  err,         \* the error createSale's catch block received ("none": none)
  snap,        \* the snapshot the transaction reads from
  txActive,    \* the store still has the transaction open
  txWrites,    \* rows written (and locked) by the open transaction
  sale,        \* the header rep.createSale returned to the call (NULL: none yet)
  outcome,     \* how the service call ended
  overlapped,  \* calls that ran while another call was running (history)
  res,         \* the HTTP response of the request
  products0,   \* the products table before any call (history)
  catalog,     \* products table with every column, as the product endpoints
               \* and deleteSaleById see it: id -> row
  store0,      \* catalog, sales and joins before the last request (history)
  req,         \* the last request the sale and product endpoints handled
  reached,     \* the last request got past its middlewares to its handler
  reply,       \* the answer to the last request
  readTx       \* how the transaction of the last request's read ended

vars == <<products, sales, joins, nextSaleId, pc, items,
          fetched, uq, done, err, snap, txActive, txWrites, sale, outcome,
          overlapped, res, products0, catalog, store0, req, reached, reply,
          readTx>>

\* the state createSale works on, and the state of the other endpoints
saleVars == <<products, nextSaleId, pc, items, fetched, uq, done, err, snap,
              txActive, txWrites, sale, outcome, overlapped, res, products0>>
apiVars == <<catalog, store0, req, reached, reply, readTx>>

NULL == [null |-> TRUE]
EmptyRows == <<>>

\* ------------------------------------------------------- errors (errorhandler)
NotFoundStatus == 404
NotModifiedStatus == 400
NumberOutOfRangeStatus == 400
ValidationStatus == 400
UniqueConstraintStatus == 409

\* err.status of each error kind; errors of the store or the runtime carry none
status(e) ==
  CASE e = "NotFoundError" -> NotFoundStatus
    [] e = "NotModifiedError" -> NotModifiedStatus
    [] e = "NumberOutOfRangeError" -> NumberOutOfRangeStatus
    [] e = "ValidationError" -> ValidationStatus
    [] e = "UniqueConstraintError" -> UniqueConstraintStatus
    [] OTHER -> 0

\* ------------------------------------------------------------ models/index.js
\* the handle as it would be were it read after the belongsToMany calls
ProductSaleDefined == "products_sales"

\* The handle models/index.js exports as ProductSale: sequelize.models.products_sales
\* is read on line 5, before the belongsToMany calls of lines 8-22 define that
\* model, so the exported value is undefined.
ProductSale == "undefined"

\* controllers/saleController.js imports GenericError from the errors module,
\* whose module.exports does not hold it: the imported value is undefined.
GenericError == "undefined"

\* ------------------------------------------------------------ pure functions
\* Product.findByPk(item.id, {transaction: t}) on the rows the transaction sees
findByPk(table, id) ==
  IF id \in DOMAIN table
    THEN [id |-> id, stock |-> table[id].stock, salePrice |-> table[id].salePrice]
    ELSE NULL

\* stockReduction with the `product.stock < 0` check taken out
stockReductionUnchecked(product, quantity, finished) ==
  LET p == [product EXCEPT !.stock = @ - quantity] IN
    IF finished
      THEN [product |-> p, error |-> "TransactionFinishedError", issued |-> FALSE]
      ELSE [product |-> p, error |-> "none", issued |-> TRUE]

\* stockReduction up to its call of updateProduct: the in-memory decrement, the
\* range check, and Sequelize's refusal of a query on a finished transaction.
\* issued: the UPDATE was put on the connection.
stockReduction(product, quantity, finished) ==
  LET p == [product EXCEPT !.stock = @ - quantity] IN
    IF p.stock < 0
      THEN [product |-> p, error |-> "NumberOutOfRangeError", issued |-> FALSE]
      ELSE IF finished
        THEN [product |-> p, error |-> "TransactionFinishedError", issued |-> FALSE]
        ELSE [product |-> p, error |-> "none", issued |-> TRUE]

\* stockReduction after updateProduct has answered
affectedRowsCheck(affectedRows) ==
  IF affectedRows < 1 THEN "NotModifiedError" ELSE "none"

\* the callback with the `if (!product)` check taken out: reading product.stock
\* of null throws a TypeError
itemCallbackUnchecked(table, item, finished) ==
  LET product == findByPk(table, item.id) IN
    IF product = NULL
      THEN [product |-> NULL, error |-> "TypeError", issued |-> FALSE]
      ELSE stockReduction(product, item.quantity, finished)

\* one callback of saleItems.map, from the SELECT's result to its first wait
itemCallback(table, item, finished) ==
  LET product == findByPk(table, item.id) IN
    IF product = NULL
      THEN [product |-> NULL, error |-> "NotFoundError", issued |-> FALSE]
      ELSE stockReduction(product, item.quantity, finished)

\* Product.update({...stock, salePrice}, {where: {id}}) on the current row
\* (NULL: no row has that id): the new row and data[0], the rows changed
updateProduct(row, product) ==
  IF row = NULL
    THEN [row |-> NULL, affectedRows |-> 0]
    ELSE LET new == [stock |-> product.stock, salePrice |-> product.salePrice] IN
      [row |-> new, affectedRows |-> IF new = row THEN 0 ELSE 1]

\* the line total without the quantity
lineTotalOfOneUnit(product, quantity) == product.salePrice

\* total: product.salePrice * item.quantity
lineTotal(product, quantity) == product.salePrice * quantity

\* the entries the item callbacks return, in item order
saleLines(its, prods) ==
  [i \in 1..Len(its) |->
    [product |-> prods[i], quantity |-> its[i].quantity,
     total |-> lineTotal(prods[i], its[i].quantity)]]

RECURSIVE SumTotals(_)
SumTotals(lines) ==
  IF lines = <<>> THEN 0 ELSE Head(lines).total + SumTotals(Tail(lines))

\* products.reduce((total, item) => total + item.total, 0)
saleTotal(lines) == SumTotals(lines)

RECURSIVE SumUnits(_)
SumUnits(lines) ==
  IF lines = <<>> THEN 0 ELSE Head(lines).quantity + SumUnits(Tail(lines))

\* the quantity field as the number of units sold
saleQuantityInUnits(lines) == SumUnits(lines)

\* quantity: products.length
saleQuantity(lines) == Len(lines)

\* the header rep.createSale inserts (Sale.create), with the id the store gives
saleHeader(lines, cash, id) ==
  [id |-> id, quantity |-> saleQuantity(lines), total |-> saleTotal(lines),
   isCash |-> cash]

\* products.map((p) => ({ProductId: p.product.id, SaleId: sale.id}))
productsSales(lines, created) ==
  {[ProductId |-> lines[i].product.id, SaleId |-> created.id] : i \in 1..Len(lines)}

\* the controller's answer. thrown: serv.createSale threw. The catch block sets
\* the status 500 and sends nothing (status is called in place of json, and
\* new GenericError throws); a returned sale reaches `data instanceof
\* GenericError`, which throws into the same catch block.
createSaleResponse(thrown, data) ==
  IF thrown \/ GenericError = "undefined"
    THEN [statusCode |-> 500, sent |-> FALSE, success |-> FALSE]
    ELSE [statusCode |-> 200, sent |-> TRUE, success |-> TRUE]

\* the rows a transaction's commit publishes
Publish(table, writes) ==
  [id \in DOMAIN table |-> IF id \in DOMAIN writes THEN writes[id] ELSE table[id]]

\* the rows the store keeps when the catch block's t.rollback() is executed
Rollback(table, writes) == table

\* ------------------------------------------------------------------- state
\* saleItems of call 1: any list of up to MaxItems items
ItemChoices == [id : ItemIds, quantity : 1..MaxQty]
ItemLists == UNION {[1..n -> ItemChoices] : n \in 1..MaxItems}

\* saleItems of call 2, the request that competes with call 1: single units of
\* stored products, in lists long enough to name every product and one of
\* them twice
UnitChoices == [id : ProductIds, quantity : {1}]
UnitLists == UNION {[1..n -> UnitChoices] : n \in 1..(Cardinality(ProductIds) + 1)}

saleItems(c) == IF c = 1 THEN ItemLists ELSE UnitLists

\* sale prices of the stored products
salePriceOf == [id \in ProductIds |-> IF id = 1 THEN 10 ELSE 3]

\* no createSale call has been made
NoCalls ==
  /\ nextSaleId = 1
  /\ pc = [c \in Calls |-> "idle"]
  /\ items = [c \in Calls |-> <<>>]
  /\ fetched = [c \in Calls |-> <<>>]
  /\ uq = [c \in Calls |-> <<>>]
  /\ done = [c \in Calls |-> {}]
  /\ err = [c \in Calls |-> "none"]
  /\ snap = [c \in Calls |-> EmptyRows]
  /\ txActive = [c \in Calls |-> FALSE]
  /\ txWrites = [c \in Calls |-> EmptyRows]
  /\ sale = [c \in Calls |-> NULL]
  /\ outcome = [c \in Calls |-> "none"]
  /\ overlapped = {}
  /\ res = [c \in Calls |-> [statusCode |-> 200, sent |-> FALSE, success |-> FALSE]]

\* res of a request not answered yet (Express starts statusCode at 200)
NoReply == [statusCode |-> 200, sent |-> FALSE, success |-> FALSE, data |-> NULL, error |-> "none"]

\* the stored rows the other endpoints read and write
Store == [catalog |-> catalog, sales |-> sales, joins |-> joins]

\* no request has been handled by the other endpoints
NoRequest ==
  /\ store0 = Store
  /\ req = NULL
  /\ reached = FALSE
  /\ reply = NoReply
  /\ readTx = "none"

Init ==
  /\ products \in {[id \in ProductIds |-> [stock |-> st[id], salePrice |-> salePriceOf[id]]] :
                     st \in [ProductIds -> 0..MaxStock]}
  /\ products0 = products
  /\ sales = {}
  /\ joins = {}
  /\ NoCalls
  /\ catalog = EmptyRows
  /\ NoRequest

\* the error the catch block receives: the first rejection wins
FirstError(old, new) == IF old = "none" THEN new ELSE old

\* after the connection has run its last queued UPDATE
AfterUpdates(e) == IF e = "none" THEN "header" ELSE "rollback"

\* the row of the UPDATE at the head of the call's connection
HeadRow(c) == items[c][Head(uq[c])].id

\* another open transaction holds the lock of the row
LockedByOther(c, id) == \E d \in Calls \ {c} : id \in DOMAIN txWrites[d]

\* ----------------------------------------------------------------- actions
\* createSale is called: sequelize.transaction(), then every item's callback
\* runs to its SELECT
Begin(c) ==
  /\ pc[c] = "idle"
  /\ \E its \in saleItems(c) : items' = [items EXCEPT ![c] = its]
  /\ pc' = [pc EXCEPT ![c] = "fetch"]
  /\ txActive' = [txActive EXCEPT ![c] = TRUE]
  /\ overlapped' = IF \E d \in Calls \ {c} : pc[d] \notin {"idle", "done"}
                     THEN overlapped \cup {c} \cup {d \in Calls : pc[d] \notin {"idle", "done"}}
                     ELSE overlapped
  /\ UNCHANGED <<products, sales, joins, nextSaleId, fetched, uq, done,
                 err, snap, txWrites, sale, outcome, res, products0>>
  /\ UNCHANGED apiVars

\* the first item whose callback throws on the answer of its SELECT (0: none)
firstRejected(table, its) ==
  IF \E k \in DOMAIN its : itemCallback(table, its[k], FALSE).error # "none"
    THEN CHOOSE k \in DOMAIN its :
           /\ itemCallback(table, its[k], FALSE).error # "none"
           /\ \A j \in 1..(k - 1) : itemCallback(table, its[j], FALSE).error = "none"
    ELSE 0

\* the callbacks of saleItems.map, run in item order on the answers of their
\* SELECTs: the instances fetched, the UPDATEs issued and the first rejection.
\* The first rejection takes createSale to its catch block, whose t.rollback()
\* finishes the transaction before the next answer is handled.
runCallbacks(table, its) ==
  LET f == firstRejected(table, its) IN
    [fetched |-> [k \in DOMAIN its |->
                    itemCallback(table, its[k], f # 0 /\ f < k).product],
     uq |-> [k \in 1..(IF f = 0 THEN Len(its) ELSE f - 1) |-> k],
     err |-> IF f = 0 THEN "none" ELSE itemCallback(table, its[f], FALSE).error]

\* the SELECTs are answered and every callback runs on to its UPDATE or its
\* throw. All of them read the snapshot taken by the first, so the answers do
\* not depend on what other requests do in between: the phase is one step.
FetchResults(c) ==
  /\ pc[c] = "fetch"
  /\ \E r \in {runCallbacks(products, items[c])} :
       /\ snap' = [snap EXCEPT ![c] = products]
       /\ fetched' = [fetched EXCEPT ![c] = r.fetched]
       /\ uq' = [uq EXCEPT ![c] = r.uq]
       /\ err' = [err EXCEPT ![c] = r.err]
       /\ pc' = [pc EXCEPT ![c] = IF r.uq # <<>> THEN "update" ELSE AfterUpdates(r.err)]
  /\ UNCHANGED <<products, sales, joins, nextSaleId, items, done,
                 txActive, txWrites, sale, outcome, overlapped, res, products0>>
  /\ UNCHANGED apiVars

\* the connection runs the next queued UPDATE and stockReduction checks its count
ExecUpdate(c) ==
  /\ pc[c] = "update"
  /\ ~LockedByOther(c, HeadRow(c))
  /\ LET k == Head(uq[c])
         id == HeadRow(c)
         cur == IF id \in DOMAIN txWrites[c] THEN txWrites[c][id]
                ELSE IF id \in DOMAIN products THEN products[id] ELSE NULL
         u == updateProduct(cur, fetched[c][k])
         e == FirstError(err[c], affectedRowsCheck(u.affectedRows))
     IN /\ IF cur = NULL
             THEN UNCHANGED <<products, txWrites>>
             ELSE IF txActive[c]
               THEN /\ txWrites' = [txWrites EXCEPT ![c] =
                                      [i \in DOMAIN @ \cup {id} |->
                                         IF i = id THEN u.row ELSE @[i]]]
                    /\ UNCHANGED products
               ELSE /\ products' = [products EXCEPT ![id] = u.row]
                    /\ UNCHANGED txWrites
        /\ done' = [done EXCEPT ![c] = IF u.affectedRows < 1 THEN @ ELSE @ \cup {k}]
        /\ err' = [err EXCEPT ![c] = e]
        /\ uq' = [uq EXCEPT ![c] = Tail(@)]
        /\ pc' = [pc EXCEPT ![c] = IF Tail(uq[c]) # <<>> THEN "update" ELSE AfterUpdates(e)]
  /\ UNCHANGED <<sales, joins, nextSaleId, items, fetched, snap,
                 txActive, sale, outcome, overlapped, res, products0>>
  /\ UNCHANGED apiVars

\* a store that leaves two transactions waiting for each other's row
DeadlockUnresolved(c) ==
  /\ pc[c] = "update"
  /\ FALSE
  /\ UNCHANGED vars

\* two transactions wait for each other's row: the store rolls this one back
\* and its waiting UPDATE fails
DeadlockVictim(c) ==
  /\ pc[c] = "update"
  /\ txActive[c]
  /\ \E d \in Calls \ {c} :
       /\ pc[d] = "update"
       /\ HeadRow(c) \in DOMAIN txWrites[d]
       /\ HeadRow(d) \in DOMAIN txWrites[c]
  /\ txWrites' = [txWrites EXCEPT ![c] = EmptyRows]
  /\ txActive' = [txActive EXCEPT ![c] = FALSE]
  /\ err' = [err EXCEPT ![c] = FirstError(@, "DatabaseError")]
  /\ uq' = [uq EXCEPT ![c] = Tail(@)]
  /\ pc' = [pc EXCEPT ![c] = IF Tail(uq[c]) # <<>> THEN "update" ELSE "rollback"]
  /\ UNCHANGED <<products, sales, joins, nextSaleId, items, fetched,
                 done, snap, sale, outcome, overlapped, res, products0>>
  /\ UNCHANGED apiVars

\* rep.createSale: the header is inserted in the transaction, or the store fails.
\* isCash is not read before this point and is drawn here.
InsertHeader(c) ==
  /\ pc[c] = "header"
  /\ \E ok \in BOOLEAN, isCash \in BOOLEAN :
       IF ok
         THEN /\ sale' = [sale EXCEPT ![c] =
                   saleHeader(saleLines(items[c], fetched[c]), isCash, nextSaleId)]
              /\ nextSaleId' = nextSaleId + 1
              /\ pc' = [pc EXCEPT ![c] = "join"]
              /\ UNCHANGED err
         ELSE /\ err' = [err EXCEPT ![c] = "DatabaseError"]
              /\ pc' = [pc EXCEPT ![c] = "rollback"]
              /\ UNCHANGED <<sale, nextSaleId>>
  /\ UNCHANGED <<products, sales, joins, items, fetched, uq, done,
                 snap, txActive, txWrites, outcome, overlapped, res, products0>>
  /\ UNCHANGED apiVars

\* ProductSale.bulkCreate(productsSales, {transaction: t}), t.commit(), return
\* sale, and the controller's answer; with ProductSale undefined the call throws
\* a TypeError into the catch block
InsertJoins(c) ==
  /\ pc[c] = "join"
  /\ IF ProductSale = "undefined"
       THEN /\ err' = [err EXCEPT ![c] = "TypeError"]
            /\ pc' = [pc EXCEPT ![c] = "rollback"]
            /\ UNCHANGED <<products, sales, joins, txActive, txWrites, outcome, res>>
       ELSE /\ products' = Publish(products, txWrites[c])
            /\ sales' = sales \cup {sale[c]}
            /\ joins' = joins \cup productsSales(saleLines(items[c], fetched[c]), sale[c])
            /\ txWrites' = [txWrites EXCEPT ![c] = EmptyRows]
            /\ txActive' = [txActive EXCEPT ![c] = FALSE]
            /\ outcome' = [outcome EXCEPT ![c] = "committed"]
            /\ res' = [res EXCEPT ![c] = createSaleResponse(FALSE, sale[c])]
            /\ pc' = [pc EXCEPT ![c] = "done"]
            /\ UNCHANGED err
  /\ UNCHANGED <<nextSaleId, items, fetched, uq, done, snap,
                 sale, overlapped, products0>>
  /\ UNCHANGED apiVars

\* catch (err) { await t.rollback(); throw err; } and the controller's answer
RollbackAndThrow(c) ==
  /\ pc[c] = "rollback"
  /\ products' = Rollback(products, txWrites[c])
  /\ txWrites' = [txWrites EXCEPT ![c] = EmptyRows]
  /\ txActive' = [txActive EXCEPT ![c] = FALSE]
  /\ outcome' = [outcome EXCEPT ![c] = "failed"]
  /\ res' = [res EXCEPT ![c] = createSaleResponse(TRUE, NULL)]
  /\ pc' = [pc EXCEPT ![c] = "done"]
  /\ UNCHANGED <<sales, joins, nextSaleId, items, fetched, uq,
                 done, err, snap, sale, overlapped, products0>>
  /\ UNCHANGED apiVars
Next ==
  \E c \in Calls :
    \/ Begin(c)
    \/ FetchResults(c)
    \/ ExecUpdate(c)
    \/ DeadlockVictim(c)
    \/ InsertHeader(c)
    \/ InsertJoins(c)
    \/ RollbackAndThrow(c)

Spec == Init /\ [][Next]_vars

\* ------------------------------------------------- the read-read-write race
\* The runs of Spec in which every call has read before any call writes: no
\* UPDATE is executed until both calls have had their SELECTs answered.
BothRead == \A d \in Calls : pc[d] \notin {"idle", "fetch"}

RaceExecUpdate(c) == BothRead /\ ExecUpdate(c)

RaceNext ==
  \E c \in Calls :
    \/ Begin(c)
    \/ FetchResults(c)
    \/ RaceExecUpdate(c)
    \/ DeadlockVictim(c)
    \/ InsertHeader(c)
    \/ InsertJoins(c)
    \/ RollbackAndThrow(c)

RaceSpec == Init /\ [][RaceNext]_vars

\* ------------------------------------------------------------ scheduling
\* what a call does once createSale has been entered: the event loop runs every
\* continuation that is ready, and the store executes every queued statement
\* whose row is free or picks a victim when two transactions wait for each other
step(c) ==
  \/ FetchResults(c)
  \/ ExecUpdate(c)
  \/ DeadlockVictim(c)
  \/ InsertHeader(c)
  \/ InsertJoins(c)
  \/ RollbackAndThrow(c)

LiveSpec == Init /\ [][Next]_vars /\ \A c \in Calls : WF_vars(step(c))

\* ===================================================== the other endpoints
\* Requests are handled one at a time; each action is one request, from its
\* route's middlewares to the answer.

\* a JSON value of a request body: a number or a string that is not one
Number(n) == [type |-> "number", value |-> n]
NotANumber == [type |-> "string", value |-> 0]

\* res.status(err.status).json(createBadRes(err)), or 500 for an error that
\* carries no status
createBadRes(e) ==
  [statusCode |-> IF status(e) = 0 THEN 500 ELSE status(e),
   sent |-> TRUE, success |-> FALSE, data |-> NULL, error |-> e]

\* res.status(code).json(createRes(message, data))
createRes(code, data) ==
  [statusCode |-> code, sent |-> TRUE, success |-> TRUE, data |-> data, error |-> "none"]

\* ---------------------------------------------- POST /api/sale/create
\* bodies of POST /api/sale/create: the two keys in either order, up to two
\* items, each with its two keys in either order and a quantity that is
\* negative, zero, positive or not a number
SaleItemBodies ==
  [keys : {<<"id", "quantity">>, <<"quantity", "id">>},
   id : {1},
   quantity : {Number(n) : n \in -1..1} \cup {NotANumber}]

SaleBodies ==
  [keys : {<<"products", "isCash">>, <<"isCash", "products">>},
   products : UNION {[1..n -> SaleItemBodies] : n \in 0..2}]

\* createSaleValidation: "next" or the error it answers with
createSaleValidation(body) ==
  IF body.keys[1] = "products" /\ body.keys[2] = "isCash"
    THEN IF Len(body.products) = 0
      THEN "ValidationError"
      ELSE IF \E k \in DOMAIN body.products :
                \/ body.products[k].keys[1] # "id"
                \/ body.products[k].keys[2] # "quantity"
        THEN "ValidationError"
        ELSE "next"
    ELSE "ValidationError"

\* router.post("/create", createSaleValidation, createSale): the middleware
\* answers the request or hands it to the controller, whose call of
\* serv.createSale is the part modelled by Spec
PostSaleCreate ==
  /\ \E body \in SaleBodies :
       LET v == createSaleValidation(body) IN
         /\ req' = [route |-> "POST /api/sale/create", body |-> body]
         /\ reached' = (v = "next")
         /\ reply' = IF v = "next" THEN NoReply ELSE createBadRes(v)
  /\ readTx' = "none"
  /\ store0' = Store
  /\ UNCHANGED <<catalog, sales, joins>>
  /\ UNCHANGED saleVars

\* ---------------------------------------------- GET /api/sale/find/...
Undefined == [type |-> "undefined", value |-> 0]
JsTrue == [type |-> "boolean", value |-> 1]

\* req.body.withProducts of a GET request: no body, 1, 0 or true
BodyFlags == {Undefined, Number(1), Number(0), JsTrue}

\* if (v) ...
truthy(v) == v.type \in {"number", "boolean"} /\ v.value # 0

\* req.params[name]; a name the route's path does not hold is undefined
param(params, name) == IF name \in DOMAIN params THEN params[name] ELSE "undefined"

\* parseInt of the strings used as :id
parseInt(str) ==
  CASE str = "1" -> Number(1)
    [] str = "2" -> Number(2)
    [] str = "3" -> Number(3)
    [] OTHER -> NotANumber

\* idParamValidation
idParamValidation(params) ==
  IF parseInt(param(params, "id")) # NotANumber THEN "next" ELSE "ValidationError"

\* findSalesWithProductsValidation
findSalesWithProductsValidation(params) ==
  IF param(params, "withProducts") = "1" \/ param(params, "withProducts") = "0"
    THEN "next" ELSE "ValidationError"

\* a Sale instance as Sale.findAll / Sale.findByPk return it: with include
\* [Product] every product comes with its products_sales join row attached
saleInstance(s, include, st) ==
  [id |-> s.id, quantity |-> s.quantity, total |-> s.total, isCash |-> s.isCash,
   Products |-> IF include
     THEN [loaded |-> TRUE,
           rows |-> {[id |-> j.ProductId, products_sales |-> TRUE] :
                       j \in {j \in st.joins : j.SaleId = s.id}}]
     ELSE [loaded |-> FALSE, rows |-> {}]]

\* delete p.dataValues.products_sales on every product of the sale
stripJoinData(inst) ==
  [inst EXCEPT !.Products.rows = {[p EXCEPT !.products_sales = FALSE] : p \in @}]

\* rep.findSales(withProducts = 0, transaction)
repFindSales(withProducts, st) ==
  LET w == IF withProducts = Undefined THEN Number(0) ELSE withProducts
  IN {saleInstance(s, w = Number(1), st) : s \in st.sales}

\* serv.findSales with a catch block that throws without t.rollback()
findSalesNoRollback(withProducts, st) ==
  LET data == repFindSales(withProducts, st) IN
    IF data = {} THEN [error |-> "NotFoundError", data |-> {}, tx |-> "open"]
    ELSE IF truthy(withProducts)
      THEN IF \E i \in data : ~i.Products.loaded
        THEN [error |-> "TypeError", data |-> {}, tx |-> "open"]
        ELSE [error |-> "none", data |-> {stripJoinData(i) : i \in data},
              tx |-> "committed"]
      ELSE [error |-> "none", data |-> data, tx |-> "committed"]

\* serv.findSales(withProducts): the error thrown or the list returned, and how
\* its transaction ended
findSales(withProducts, st) ==
  LET data == repFindSales(withProducts, st) IN
    IF data = {} THEN [error |-> "NotFoundError", data |-> {}, tx |-> "rolledBack"]
    ELSE IF truthy(withProducts)
      THEN IF \E i \in data : ~i.Products.loaded
        THEN [error |-> "TypeError", data |-> {}, tx |-> "rolledBack"]
        ELSE [error |-> "none", data |-> {stripJoinData(i) : i \in data},
              tx |-> "committed"]
      ELSE [error |-> "none", data |-> data, tx |-> "committed"]

\* the catch block of the controllers findSales and createSale: res.status(500)
\* is called, then new GenericError throws before json is
genericErrorReply ==
  IF GenericError = "undefined"
    THEN [statusCode |-> 500, sent |-> FALSE, success |-> FALSE,
          data |-> NULL, error |-> "none"]
    ELSE [statusCode |-> 500, sent |-> TRUE, success |-> FALSE,
          data |-> NULL, error |-> "GenericError"]

\* controller findSales: withProducts is read from req.body
findSalesController(body, st) ==
  LET r == findSales(body.withProducts, st) IN
    IF r.error = "none" THEN createRes(200, r.data) ELSE genericErrorReply

\* router.get("/find/all/:withProducts", findSalesWithProductsValidation, findSales)
GetSales ==
  /\ \E w \in {"0", "1", "2"}, flag \in BodyFlags :
       LET params == [withProducts |-> w]
           body == [withProducts |-> flag]
           v == findSalesWithProductsValidation(params)
       IN /\ req' = [route |-> "GET /api/sale/find/all/:withProducts",
                     params |-> params, body |-> body]
          /\ reached' = (v = "next")
          /\ reply' = IF v = "next" THEN findSalesController(body, Store)
                      ELSE createBadRes(v)
          /\ readTx' = IF v = "next" THEN findSales(body.withProducts, Store).tx
                       ELSE "none"
  /\ store0' = Store
  /\ UNCHANGED <<catalog, sales, joins>>
  /\ UNCHANGED saleVars

\* rep.findSaleById(id, withProducts = false, transaction)
repFindSaleById(id, withProducts, st) ==
  IF \E s \in st.sales : Number(s.id) = parseInt(id)
    THEN saleInstance(CHOOSE s \in st.sales : Number(s.id) = parseInt(id),
                      truthy(withProducts), st)
    ELSE NULL

\* serv.findSaleById(id, withProducts)
findSaleById(id, withProducts, st) ==
  LET data == repFindSaleById(id, withProducts, st) IN
    IF data = NULL THEN [error |-> "NotFoundError", data |-> NULL, tx |-> "rolledBack"]
    ELSE IF truthy(withProducts)
      THEN [error |-> "none", data |-> stripJoinData(data), tx |-> "committed"]
      ELSE [error |-> "none", data |-> data, tx |-> "committed"]

\* controller findSaleById: its catch block answers 500 whatever the error
findSaleByIdController(params, body, st) ==
  LET r == findSaleById(param(params, "id"), body.withProducts, st) IN
    IF r.error = "none" THEN createRes(200, r.data)
    ELSE [statusCode |-> 500, sent |-> TRUE, success |-> FALSE,
          data |-> NULL, error |-> r.error]

\* the middlewares of a route in order: the first error, or "next"
RECURSIVE runMiddlewares(_)
runMiddlewares(results) ==
  IF results = <<>> THEN "next"
  ELSE IF Head(results) # "next" THEN Head(results)
  ELSE runMiddlewares(Tail(results))

\* router.get("/find/id/:id", [idParamValidation,
\* findSalesWithProductsValidation], findSaleById)
GetSaleById ==
  /\ \E id \in {"1", "2", "3", "x"}, flag \in BodyFlags :
       LET params == [id |-> id]
           body == [withProducts |-> flag]
           v == runMiddlewares(<<idParamValidation(params),
                                 findSalesWithProductsValidation(params)>>)
       IN /\ req' = [route |-> "GET /api/sale/find/id/:id",
                     params |-> params, body |-> body]
          /\ reached' = (v = "next")
          /\ reply' = IF v = "next" THEN findSaleByIdController(params, body, Store)
                      ELSE createBadRes(v)
          /\ readTx' = IF v = "next"
                         THEN findSaleById(param(params, "id"), body.withProducts, Store).tx
                         ELSE "none"
  /\ store0' = Store
  /\ UNCHANGED <<catalog, sales, joins>>
  /\ UNCHANGED saleVars

\* a call of serv.findSaleById(id, withProducts), which no request reaches
\* through the route above
ServFindSaleById ==
  /\ \E id \in {"1", "2", "3"}, flag \in BodyFlags :
       LET r == findSaleById(id, flag, Store) IN
         /\ req' = [route |-> "findSaleById", id |-> id, withProducts |-> flag]
         /\ reached' = TRUE
         /\ reply' = [statusCode |-> 200, sent |-> FALSE, success |-> r.error = "none",
                      data |-> r.data, error |-> r.error]
         /\ readTx' = r.tx
  /\ store0' = Store
  /\ UNCHANGED <<catalog, sales, joins>>
  /\ UNCHANGED saleVars

\* ---------------------------------------------- deleteSaleById
\* serv.deleteSaleById(id) with the units the sale sold put back on the shelf
deleteSaleByIdRestocking(id, st) ==
  LET hit == {s \in st.sales : s.id = id}
      sold == {j.ProductId : j \in {j \in st.joins : j.SaleId = id}}
  IN [store |-> [catalog |-> [i \in DOMAIN st.catalog |->
                                IF i \in sold
                                  THEN [st.catalog[i] EXCEPT !.stock = @ + 1]
                                  ELSE st.catalog[i]],
                 sales |-> st.sales \ hit,
                 joins |-> {j \in st.joins : j.SaleId # id}],
      error |-> IF Cardinality(hit) < 1 THEN "NotFoundError" ELSE "none",
      data |-> Cardinality(hit)]

\* serv.deleteSaleById(id): Sale.destroy({where: {id}}) deletes the header, the
\* foreign key of products_sales (onDelete CASCADE) deletes its join rows, and
\* fewer than one deleted row is a NotFoundError
deleteSaleById(id, st) ==
  LET hit == {s \in st.sales : s.id = id}
  IN [store |-> [catalog |-> st.catalog,
                 sales |-> st.sales \ hit,
                 joins |-> {j \in st.joins : j.SaleId # id}],
      error |-> IF Cardinality(hit) < 1 THEN "NotFoundError" ELSE "none",
      data |-> Cardinality(hit)]

\* a call of serv.deleteSaleById (no route leads to it)
DeleteSale ==
  /\ \E id \in 1..3 :
       LET r == deleteSaleById(id, Store) IN
         /\ req' = [route |-> "deleteSaleById", id |-> id]
         /\ reached' = TRUE
         /\ reply' = [statusCode |-> 200, sent |-> FALSE, success |-> r.error = "none",
                      data |-> [deleted |-> r.data], error |-> r.error]
         /\ catalog' = r.store.catalog
         /\ sales' = r.store.sales
         /\ joins' = r.store.joins
  /\ readTx' = "none"
  /\ store0' = Store
  /\ UNCHANGED saleVars

\* ---------------------------------------------- DELETE /api/product/delete/...
\* barcodeParamValidation
barcodeParamValidation(params) ==
  IF param(params, "barcode") \notin {"", "undefined"} THEN "next" ELSE "ValidationError"

\* Product.destroy({where}) on the rows hit: the products are deleted and the
\* foreign key of products_sales (onDelete CASCADE) deletes their join rows;
\* the sale headers are not touched. serv.deleteProductById and
\* serv.deleteProductByBarcode throw NotFoundError when no row was deleted.
deleteProducts(hit, st) ==
  [store |-> [catalog |-> [i \in DOMAIN st.catalog \ hit |-> st.catalog[i]],
              sales |-> st.sales,
              joins |-> {j \in st.joins : j.ProductId \notin hit}],
   error |-> IF Cardinality(hit) = 0 THEN "NotFoundError" ELSE "none",
   data |-> Cardinality(hit)]

\* the controllers' answer to a delete
deleteReply(r) ==
  IF r.error = "none" THEN createRes(200, NULL) ELSE createBadRes(r.error)

\* router.delete("/delete/id/:id", idParamValidation, controller.deleteProductById)
DeleteProductById ==
  /\ \E id \in {"1", "2", "3", "x"} :
       LET params == [id |-> id]
           v == idParamValidation(params)
           r == deleteProducts({i \in DOMAIN catalog : Number(i) = parseInt(id)}, Store)
       IN /\ req' = [route |-> "DELETE /api/product/delete/id/:id", params |-> params]
          /\ reached' = (v = "next")
          /\ reply' = IF v = "next" THEN deleteReply(r) ELSE createBadRes(v)
          /\ catalog' = IF v = "next" THEN r.store.catalog ELSE catalog
          /\ joins' = IF v = "next" THEN r.store.joins ELSE joins
  /\ readTx' = "none"
  /\ store0' = Store
  /\ UNCHANGED sales
  /\ UNCHANGED saleVars

\* router.delete("/delete/barcode/:barcode", barcodeParamValidation,
\* controller.deleteProductByBarcode)
DeleteProductByBarcode ==
  /\ \E barcode \in {"a", "b", "c"} :
       LET params == [barcode |-> barcode]
           v == barcodeParamValidation(params)
           r == deleteProducts({i \in DOMAIN catalog : catalog[i].barcode = barcode}, Store)
       IN /\ req' = [route |-> "DELETE /api/product/delete/barcode/:barcode",
                     params |-> params]
          /\ reached' = (v = "next")
          /\ reply' = IF v = "next" THEN deleteReply(r) ELSE createBadRes(v)
          /\ catalog' = IF v = "next" THEN r.store.catalog ELSE catalog
          /\ joins' = IF v = "next" THEN r.store.joins ELSE joins
  /\ readTx' = "none"
  /\ store0' = Store
  /\ UNCHANGED sales
  /\ UNCHANGED saleVars

\* ---------------------------------------------- the sale endpoints' runs
\* the rows the store holds when the server starts: two products, and any of
\* two sales, the first of both products and the second of product 1
SeedCatalog ==
  [id \in ProductIds |->
     [barcode |-> IF id = 1 THEN "a" ELSE "b", name |-> "n",
      stock |-> 1, costPrice |-> 1, salePrice |-> salePriceOf[id]]]

SeedSales ==
  {[id |-> 1, quantity |-> 2, total |-> 13, isCash |-> TRUE],
   [id |-> 2, quantity |-> 1, total |-> 10, isCash |-> FALSE]}

SeedJoins(ss) ==
  {j \in {[ProductId |-> 1, SaleId |-> 1], [ProductId |-> 2, SaleId |-> 1],
          [ProductId |-> 1, SaleId |-> 2]} : \E x \in ss : x.id = j.SaleId}

SaleApiInit ==
  /\ catalog = SeedCatalog
  /\ sales \in SUBSET SeedSales
  /\ joins = SeedJoins(sales)
  /\ products = EmptyRows
  /\ products0 = EmptyRows
  /\ NoCalls
  /\ NoRequest

SaleApiNext ==
  \/ PostSaleCreate
  \/ GetSales
  \/ GetSaleById
  \/ ServFindSaleById
  \/ DeleteSale
  \/ DeleteProductById
  \/ DeleteProductByBarcode

SaleApiSpec == SaleApiInit /\ [][SaleApiNext]_vars

\* ---------------------------------------------- /api/product
CreateKeys == <<"barcode", "name", "stock", "costPrice", "salePrice">>
UpdateKeys == <<"id">> \o CreateKeys

\* stock, costPrice and salePrice of a body: all positive, or one negative
AmountChoices == {<<1, 1, 1>>, <<-1, 1, 1>>, <<1, -1, 1>>, <<1, 1, -1>>}

\* bodies of POST /api/product/create and PUT /api/product/update: the keys
\* of a create, of an update, or in a wrong order; a barcode and a name that
\* may be empty; amounts that may be negative
ProductBodies ==
  {[keys |-> k, id |-> i, barcode |-> b, name |-> n,
    stock |-> a[1], costPrice |-> a[2], salePrice |-> a[3]] :
     k \in {CreateKeys, UpdateKeys,
            <<"name", "barcode", "stock", "costPrice", "salePrice">>},
     i \in 1..2, b \in {"", "a", "b"}, n \in {"", "n"}, a \in AmountChoices}

\* productValidation
productValidation(body) ==
  LET productProps == IF body.keys[1] # "id" THEN Tail(UpdateKeys) ELSE UpdateKeys IN
    IF body.keys = productProps /\ body.barcode # "" /\ body.name # ""
      THEN "next"
      ELSE "ValidationError"

\* the columns of a products row
productRow(p) ==
  [barcode |-> p.barcode, name |-> p.name, stock |-> p.stock,
   costPrice |-> p.costPrice, salePrice |-> p.salePrice]

\* barcode is unique: true -- another row of the table holds the barcode
barcodeTaken(table, barcode, id) ==
  \E i \in DOMAIN table : i # id /\ table[i].barcode = barcode

\* rep.saveProduct handing on the store's error as it comes
repSaveProductUnmapped(table, p) ==
  IF barcodeTaken(table, p.barcode, 0)
    THEN [table |-> table, error |-> "SequelizeUniqueConstraintError", data |-> NULL]
    ELSE LET id == Len(table) + 1 IN
      [table |-> Append(table, productRow(p)), error |-> "none",
       data |-> [id |-> id, row |-> productRow(p)]]

\* rep.saveProduct: Product.create, the store's unique violation turned into
\* UniqueConstraintError
repSaveProduct(table, p) ==
  IF barcodeTaken(table, p.barcode, 0)
    THEN [table |-> table, error |-> "UniqueConstraintError", data |-> NULL]
    ELSE LET id == Len(table) + 1 IN
      [table |-> Append(table, productRow(p)), error |-> "none",
       data |-> [id |-> id, row |-> productRow(p)]]

\* rep.updateProduct outside a transaction: Product.update of every column
\* where id, giving the number of rows changed
repUpdateProduct(table, id, p) ==
  IF id \notin DOMAIN table
    THEN [table |-> table, error |-> "none", affectedRows |-> 0]
    ELSE IF barcodeTaken(table, p.barcode, id)
      THEN [table |-> table, error |-> "UniqueConstraintError", affectedRows |-> 0]
      ELSE [table |-> [table EXCEPT ![id] = productRow(p)], error |-> "none",
            affectedRows |-> IF table[id] = productRow(p) THEN 0 ELSE 1]

\* serv.updateProduct returning the product whatever the row count
updateProductServiceUnchecked(table, id, p) ==
  IF id \notin DOMAIN table
    THEN [table |-> table, error |-> "NotFoundError", data |-> NULL]
    ELSE LET u == repUpdateProduct(table, id, p) IN
      IF u.error # "none" THEN [table |-> table, error |-> u.error, data |-> NULL]
      ELSE [table |-> u.table, error |-> "none",
            data |-> [id |-> id, row |-> productRow(p)]]

\* serv.updateProduct (productService)
updateProductService(table, id, p) ==
  IF id \notin DOMAIN table
    THEN [table |-> table, error |-> "NotFoundError", data |-> NULL]
    ELSE LET u == repUpdateProduct(table, id, p) IN
      IF u.error # "none" THEN [table |-> table, error |-> u.error, data |-> NULL]
      ELSE IF u.affectedRows = 1
        THEN [table |-> u.table, error |-> "none",
              data |-> [id |-> id, row |-> productRow(p)]]
        ELSE [table |-> u.table, error |-> "NotModifiedError", data |-> NULL]

\* the controllers' answer to a service result
productReply(r, code) ==
  IF r.error = "none" THEN createRes(code, r.data) ELSE createBadRes(r.error)

\* router.post("/create", productValidation, controller.saveProduct)
PostProduct ==
  /\ \E body \in ProductBodies :
       LET v == productValidation(body)
           r == repSaveProduct(catalog, body)
       IN /\ req' = [route |-> "POST /api/product/create", body |-> body]
          /\ reached' = (v = "next")
          /\ reply' = IF v = "next" THEN productReply(r, 201) ELSE createBadRes(v)
          /\ catalog' = IF v = "next" THEN r.table ELSE catalog
  /\ readTx' = "none"
  /\ store0' = Store
  /\ UNCHANGED <<sales, joins>>
  /\ UNCHANGED saleVars

\* router.put("/update", productValidation, controller.updateProduct); a body
\* without id names no row
PutProduct ==
  /\ \E body \in ProductBodies :
       LET v == productValidation(body)
           id == IF body.keys[1] = "id" THEN body.id ELSE 0
           r == updateProductService(catalog, id, body)
       IN /\ req' = [route |-> "PUT /api/product/update", body |-> body]
          /\ reached' = (v = "next")
          /\ reply' = IF v = "next" THEN productReply(r, 200) ELSE createBadRes(v)
          /\ catalog' = IF v = "next" THEN r.table ELSE catalog
  /\ readTx' = "none"
  /\ store0' = Store
  /\ UNCHANGED <<sales, joins>>
  /\ UNCHANGED saleVars

ProductInit ==
  /\ catalog = EmptyRows
  /\ sales = {}
  /\ joins = {}
  /\ products = EmptyRows
  /\ products0 = EmptyRows
  /\ NoCalls
  /\ NoRequest

ProductNext ==
  \/ PostProduct
  \/ PutProduct

ProductSpec == ProductInit /\ [][ProductNext]_vars

\* ------------------------------------- a catalog update while sales run
\* serv.updateProduct (productService) on the columns the sales work on:
\* rep.findProductById, then rep.updateProduct without a transaction, whose
\* row count must be 1
servUpdateProduct(table, id, p) ==
  IF id \notin DOMAIN table
    THEN [table |-> table, error |-> "NotFoundError"]
    ELSE LET u == updateProduct(table[id], p) IN
      IF u.affectedRows = 1
        THEN [table |-> [table EXCEPT ![id] = u.row], error |-> "none"]
        ELSE [table |-> table, error |-> "NotModifiedError"]

\* bodies of the update: a stored product, any stock, the price kept or raised
CatalogBodies ==
  {[id |-> i, stock |-> st, salePrice |-> salePriceOf[i] + d] :
     i \in ProductIds, st \in 0..MaxStock, d \in {0, 1}}

\* PUT /api/product/update handled while a sale is under way. Its UPDATE is a
\* statement of its own (committed at once) and waits while a sale's
\* transaction holds the row. during: the calls under way when it ran.
PutProductDuringSale ==
  /\ req = NULL
  /\ \E c \in Calls : pc[c] \notin {"idle", "done"}
  /\ \E body \in CatalogBodies :
       LET r == servUpdateProduct(products, body.id, body) IN
         /\ \A c \in Calls : body.id \notin DOMAIN txWrites[c]
         /\ products' = r.table
         /\ req' = [route |-> "PUT /api/product/update", body |-> body,
                    during |-> {c \in Calls : pc[c] \notin {"idle", "done"}}]
         /\ reached' = TRUE
         /\ reply' = IF r.error = "none" THEN createRes(200, body)
                     ELSE createBadRes(r.error)
  /\ readTx' = "none"
  /\ store0' = Store
  /\ UNCHANGED <<sales, joins, catalog, nextSaleId, pc, items, fetched, uq, done,
                 err, snap, txActive, txWrites, sale, outcome, overlapped, res,
                 products0>>

\* one createSale call and one catalog update
MixNext ==
  \/ Begin(1)
  \/ FetchResults(1)
  \/ ExecUpdate(1)
  \/ InsertHeader(1)
  \/ InsertJoins(1)
  \/ RollbackAndThrow(1)
  \/ PutProductDuringSale

MixSpec == Init /\ [][MixNext]_vars

\* ================================================================ properties
\* the service call has returned to the controller and the request is over
Returned(c) == pc[c] = "done"

\* the call has returned and no other call has started
Alone(c) == Returned(c) /\ \A d \in Calls \ {c} : pc[d] = "idle"

\* no call is under way
Quiescent == \A c \in Calls : pc[c] \in {"idle", "done"}

\* every item names a stored product and asks for no more than the stock read
Satisfiable(c) ==
  \A k \in DOMAIN items[c] :
    /\ items[c][k].id \in ProductIds
    /\ items[c][k].quantity <= snap[c][items[c][k].id].stock

DistinctIds(c) ==
  \A j, k \in DOMAIN items[c] : j # k => items[c][j].id # items[c][k].id

\* the table the call read, with every named product's stock less its quantity
SoldFrom(c) ==
  [id \in DOMAIN snap[c] |->
     IF \E k \in DOMAIN items[c] : items[c][k].id = id
       THEN LET k == CHOOSE k \in DOMAIN items[c] : items[c][k].id = id
            IN [snap[c][id] EXCEPT !.stock = @ - items[c][k].quantity]
       ELSE snap[c][id]]

\* sum over the first n items of salePrice as read in the transaction x quantity
RECURSIVE PricedAtRead(_, _)
PricedAtRead(c, n) ==
  IF n = 0 THEN 0
  ELSE snap[c][items[c][n].id].salePrice * items[c][n].quantity + PricedAtRead(c, n - 1)

HasMissing(c) == \E k \in DOMAIN items[c] : items[c][k].id \notin ProductIds

FirstMissing(c) ==
  CHOOSE k \in DOMAIN items[c] :
    /\ items[c][k].id \notin ProductIds
    /\ \A j \in 1..(k - 1) : items[c][j].id \in ProductIds

\* C1: when no call has committed and none is under way (every call made has
\* failed and returned), every product's committed stock is what it was before
\* the calls and no sale header and no join row exists.
C1_FailedCallLeavesNoTrace ==
  (Quiescent /\ \A c \in Calls : outcome[c] # "committed")
    => /\ products = products0
       /\ sales = {}
       /\ joins = {}

\* C2: two overlapping single-item calls for the same product, each asking no
\* more than the stock and together more than it: once both have returned,
\* exactly one has committed, the other has failed with NumberOutOfRangeError
\* or NotModifiedError, and the committed stock is not negative.
C2_OneOfTwoOverlappingCommits ==
  \A c, d \in Calls :
    ( /\ c # d
      /\ Returned(c) /\ Returned(d)
      /\ {c, d} \subseteq overlapped
      /\ Len(items[c]) = 1 /\ Len(items[d]) = 1
      /\ items[c][1].id = items[d][1].id
      /\ items[c][1].id \in ProductIds
      /\ items[c][1].quantity <= products0[items[c][1].id].stock
      /\ items[d][1].quantity <= products0[items[c][1].id].stock
      /\ items[c][1].quantity + items[d][1].quantity > products0[items[c][1].id].stock
      /\ err[c] # "DatabaseError" /\ err[d] # "DatabaseError" )
    => /\ \E w \in {c, d} :
            /\ outcome[w] = "committed"
            /\ \A l \in {c, d} \ {w} :
                 /\ outcome[l] = "failed"
                 /\ err[l] \in {"NumberOutOfRangeError", "NotModifiedError"}
       /\ products[items[c][1].id].stock >= 0

\* C3: no product's stock is negative, in the committed table and in the rows
\* an open transaction has written and would commit.
C3_StockNeverNegative ==
  /\ \A id \in DOMAIN products : products[id].stock >= 0
  /\ \A c \in Calls : \A id \in DOMAIN txWrites[c] : txWrites[c][id].stock >= 0

\* a sale has written the last units of a product
C3_LastUnitSold ==
  \E c \in Calls : \E id \in DOMAIN txWrites[c] :
    txWrites[c][id].stock = 0 /\ products[id].stock > 0

\* C4: the sale header a call inserts (the row a successful call persists and
\* returns) has as total the sum over the items of the salePrice read in the
\* call's transaction times the item's quantity; a committed call's header is
\* in the sales table.
C4_TotalIsSumOfLineTotals ==
  \A c \in Calls :
    /\ sale[c] # NULL => sale[c].total = PricedAtRead(c, Len(items[c]))
    /\ outcome[c] = "committed" => sale[c] \in sales

\* a header inserted for two different products, one of them sold twice
C4_TwoLineHeader ==
  /\ sale[1] # NULL
  /\ Len(items[1]) = 2
  /\ items[1][1].id # items[1][2].id
  /\ items[1][1].quantity = 2
  /\ sale[1].total = 2 * salePriceOf[items[1][1].id]
                       + items[1][2].quantity * salePriceOf[items[1][2].id]

\* C5: the sale header a call inserts has as quantity the number of items of
\* the input list, whatever the units asked of each.
C5_QuantityIsLineCount ==
  \A c \in Calls : sale[c] # NULL => sale[c].quantity = Len(items[c])

\* a header inserted for one item of two units
C5_OneLineTwoUnits ==
  /\ sale[1] # NULL
  /\ Len(items[1]) = 1
  /\ items[1][1].quantity = 2
  /\ sale[1].quantity = 1

\* C6: a call made alone, whose items name distinct stored products with
\* enough stock and which meets no storage failure, commits, and the committed
\* table is the one it read with each named product's stock less the item's
\* quantity.
C6_SatisfiableSaleSucceeds ==
  \A c \in Calls :
    (Alone(c) /\ Satisfiable(c) /\ DistinctIds(c) /\ err[c] # "DatabaseError")
      => /\ outcome[c] = "committed"
         /\ products = SoldFrom(c)

\* C7: a single-item call made alone on a product with stock s, meeting no
\* storage failure: with quantity s it commits and leaves stock 0; with
\* quantity s + 1 it fails with NumberOutOfRangeError and leaves stock s.
C7_StockBoundary ==
  \A c \in Calls :
    (Alone(c) /\ Len(items[c]) = 1 /\ items[c][1].id \in ProductIds
       /\ err[c] # "DatabaseError")
      => LET id == items[c][1].id
             s == snap[c][id].stock
             q == items[c][1].quantity
         IN /\ q = s => outcome[c] = "committed" /\ products[id].stock = 0
            /\ q = s + 1 => /\ outcome[c] = "failed"
                            /\ err[c] = "NumberOutOfRangeError"
                            /\ products[id].stock = s

\* C8 as stated: a returned call with an item whose id is not stored has failed
\* with NotFoundError and has inserted no sale header.
C8_MissingIdGivesNotFound ==
  \A c \in Calls :
    (Returned(c) /\ HasMissing(c))
      => /\ outcome[c] = "failed"
         /\ err[c] = "NotFoundError"
         /\ sale[c] = NULL

\* C8 amended: a returned call with an item whose id is not stored has failed
\* and has inserted no sale header; its error is NotFoundError, unless an item
\* listed before the first missing one asks for more than the stock read, and
\* then it is NumberOutOfRangeError.
C8_MissingIdFailsWithFirstError ==
  \A c \in Calls :
    (Returned(c) /\ HasMissing(c))
      => /\ outcome[c] = "failed"
         /\ sale[c] = NULL
         /\ err[c] = IF \E j \in 1..(FirstMissing(c) - 1) :
                          items[c][j].quantity > snap[c][items[c][j].id].stock
                       THEN "NumberOutOfRangeError"
                       ELSE "NotFoundError"

\* a call whose second item is missing and whose first item is in stock has
\* returned with NotFoundError
C8_MissingSecondItem ==
  /\ Returned(1)
  /\ Len(items[1]) = 2
  /\ items[1][2].id \notin ProductIds
  /\ items[1][1].id \in ProductIds
  /\ items[1][1].quantity <= snap[1][items[1][1].id].stock
  /\ err[1] = "NotFoundError"
  /\ outcome[1] = "failed"

\* C10: a failed sale is answered, in the failure envelope, with the status of
\* its error kind: 404 for NotFoundError, a 4xx for NumberOutOfRangeError and
\* NotModifiedError, 500 for any other failure.
C10_FailureStatusByKind ==
  \A c \in Calls :
    (Returned(c) /\ outcome[c] = "failed")
      => /\ res[c].sent
         /\ ~res[c].success
         /\ res[c].statusCode =
              IF status(err[c]) = 0 THEN 500 ELSE status(err[c])
         /\ err[c] = "NotFoundError" => res[c].statusCode = 404
         /\ err[c] \in {"NumberOutOfRangeError", "NotModifiedError"}
              => res[c].statusCode \in 400..499

\* every item's quantity is a number greater than 0
PositiveQuantities(body) ==
  \A k \in DOMAIN body.products :
    /\ body.products[k].quantity.type = "number"
    /\ body.products[k].quantity.value > 0

\* C11: a POST /api/sale/create request reaches createSale only if its
\* products list is not empty and every quantity is a number greater than 0;
\* any other request is answered with a ValidationError and leaves the store
\* as it was.
C11_OnlyPositiveQuantitiesReachCreateSale ==
  (req # NULL /\ req.route = "POST /api/sale/create")
    => /\ reached => Len(req.body.products) > 0 /\ PositiveQuantities(req.body)
       /\ ~(Len(req.body.products) > 0 /\ PositiveQuantities(req.body))
            => /\ ~reached
               /\ reply.sent
               /\ reply.error = "ValidationError"
               /\ Store = store0

\* the instances a list of every sale holds, with or without their products
AllSales(st, withProducts) ==
  {IF withProducts THEN stripJoinData(saleInstance(s, TRUE, st))
   ELSE saleInstance(s, FALSE, st) : s \in st.sales}

\* C12: a GET /api/sale/find/id/:id request whose id is numeric and names a
\* stored sale gets past the route's middlewares to findSaleById and is
\* answered 200 with that sale.
C12_FindSaleByIdAnswersStoredSale ==
  ( /\ req # NULL
    /\ req.route = "GET /api/sale/find/id/:id"
    /\ \E s \in store0.sales : Number(s.id) = parseInt(req.params.id) )
    => /\ reached
       /\ reply.sent
       /\ reply.statusCode = 200
       /\ \E s \in store0.sales :
            /\ Number(s.id) = parseInt(req.params.id)
            /\ reply.data.id = s.id
            /\ reply.data.total = s.total

\* C13: on a store that holds sales, GET /api/sale/find/all/1 is answered 200
\* with every sale and its products, without join rows attached, and
\* GET /api/sale/find/all/0 is answered 200 with every sale header without
\* products.
C13_FindAllHonoursWithProducts ==
  ( /\ req # NULL
    /\ req.route = "GET /api/sale/find/all/:withProducts"
    /\ store0.sales # {}
    /\ req.params.withProducts \in {"0", "1"} )
    => /\ reply.sent
       /\ reply.statusCode = 200
       /\ reply.data = AllSales(store0, req.params.withProducts = "1")

\* C14: deleteSaleById of a stored sale removes its header and leaves every
\* product row (stock, barcode, name, prices) as it was.
C14_DeleteSaleKeepsProducts ==
  ( /\ req # NULL
    /\ req.route = "deleteSaleById"
    /\ \E s \in store0.sales : s.id = req.id )
    => /\ reply.success
       /\ ~\E s \in sales : s.id = req.id
       /\ sales = {s \in store0.sales : s.id # req.id}
       /\ catalog = store0.catalog

\* a sale of two products has been deleted
C14_DeletedSaleOfTwoProducts ==
  /\ req # NULL
  /\ req.route = "deleteSaleById"
  /\ req.id = 1
  /\ \E s \in store0.sales : s.id = 1
  /\ Cardinality({j \in store0.joins : j.SaleId = 1}) = 2
  /\ ~\E s \in sales : s.id = 1
  /\ \A i \in DOMAIN catalog : catalog[i].stock = 1

\* the last request was a create or an update that, carried out, would give
\* its barcode to a second row
WouldDuplicate ==
  /\ req # NULL
  /\ reached
  /\ \/ /\ req.route = "POST /api/product/create"
        /\ barcodeTaken(store0.catalog, req.body.barcode, 0)
     \/ /\ req.route = "PUT /api/product/update"
        /\ req.body.keys[1] = "id"
        /\ req.body.id \in DOMAIN store0.catalog
        /\ barcodeTaken(store0.catalog, req.body.barcode, req.body.id)

\* C15: no two stored products share a barcode, and a create or update that
\* would duplicate one is answered with UniqueConstraintError (409) and leaves
\* the products table as it was.
C15_BarcodesStayUnique ==
  /\ \A i, j \in DOMAIN catalog : i # j => catalog[i].barcode # catalog[j].barcode
  /\ WouldDuplicate
       => /\ reply.error = "UniqueConstraintError"
          /\ reply.statusCode = 409
          /\ reply.sent
          /\ catalog = store0.catalog

\* an update asked for the barcode of another product and was refused
C15_UpdateToTakenBarcode ==
  /\ WouldDuplicate
  /\ req.route = "PUT /api/product/update"
  /\ Len(catalog) = 2
  /\ reply.statusCode = 409

\* C16: no product row stored by an accepted create or update request has a
\* negative stock, costPrice or salePrice.
C16_NoNegativeAmountsStored ==
  \A i \in DOMAIN catalog :
    /\ catalog[i].stock >= 0
    /\ catalog[i].costPrice >= 0
    /\ catalog[i].salePrice >= 0

\* the items of the call whose UPDATE was put on the connection
Issued(c) ==
  LET r == runCallbacks(snap[c], items[c])
  IN {r.uq[i] : i \in DOMAIN r.uq}

\* C17: items are processed one after another: when the SELECT of item k has
\* been answered, the UPDATE of every earlier item is no longer waiting on the
\* connection.
C17_ItemsProcessedInSequence ==
  \A c \in Calls :
    \A k \in DOMAIN fetched[c] :
      \A i \in DOMAIN uq[c] : uq[c][i] >= k

\* C18: two single-item calls for the same product that both read its stock
\* before either wrote it, each asking no more than the stock read: once both
\* have returned, at most one has committed and one of them has failed with
\* NotModifiedError after an UPDATE that changed no row. (Checked on RaceSpec,
\* whose runs are those in which both calls read before either writes.)
C18_LaterWriterGetsZeroRows ==
  \A c, d \in Calls :
    ( /\ c # d
      /\ Returned(c) /\ Returned(d)
      /\ Len(items[c]) = 1 /\ Len(items[d]) = 1
      /\ items[c][1].id = items[d][1].id
      /\ Satisfiable(c) /\ Satisfiable(d)
      /\ snap[c] = snap[d]
      /\ err[c] # "DatabaseError" /\ err[d] # "DatabaseError" )
    => /\ ~(outcome[c] = "committed" /\ outcome[d] = "committed")
       /\ \E l \in {c, d} :
            /\ outcome[l] = "failed"
            /\ err[l] = "NotModifiedError"
            /\ done[l] = {}

\* C19: a call made alone, one of whose UPDATEs changed no row, has failed
\* with NotModifiedError, has inserted no sale header and has left the
\* products table as it read it.
C19_ZeroRowsGivesNotModified ==
  \A c \in Calls :
    (Alone(c) /\ Issued(c) \ done[c] # {})
      => /\ outcome[c] = "failed"
         /\ err[c] = "NotModifiedError"
         /\ sale[c] = NULL
         /\ products = snap[c]

\* C20: as long as no call has committed, the committed tables, which are what
\* every other reader and writer works on, show no stock decrement, no sale
\* header and no join row of a call.
C20_NothingVisibleBeforeCommit ==
  (\A c \in Calls : outcome[c] # "committed")
    => /\ products = products0
       /\ \A d \in Calls : snap[d] # EmptyRows => snap[d] = products0
       /\ sales = {}
       /\ joins = {}

\* a call of two different stored products
TwoProducts(c) ==
  /\ Len(items[c]) >= 2
  /\ items[c][1].id \in ProductIds
  /\ items[c][2].id \in ProductIds
  /\ items[c][1].id # items[c][2].id

\* the call has ended in exactly one of the two final states and the store
\* holds no open transaction and no row lock of it
Finished(c) ==
  /\ Returned(c)
  /\ outcome[c] \in {"committed", "failed"}
  /\ ~txActive[c]
  /\ txWrites[c] = EmptyRows
  /\ uq[c] = <<>>

\* C21: every createSale call that has been entered eventually returns, ended
\* in exactly one of committed and rolled back, with no transaction and no row
\* lock left open, also when two overlapping calls name the same two products
\* in opposite orders.
C21_EveryCallFinishes ==
  \A c \in Calls : (pc[c] # "idle") ~> Finished(c)

\* two overlapping calls that named the same two products in opposite orders
\* and waited for each other's row have both returned
C21_OppositeOrdersBothReturned ==
  /\ Finished(1) /\ Finished(2)
  /\ {1, 2} \subseteq overlapped
  /\ TwoProducts(1) /\ TwoProducts(2)
  /\ items[1][1].id = items[2][2].id
  /\ items[1][2].id = items[2][1].id
  /\ \E c \in Calls : err[c] = "DatabaseError" /\ done[c] # {}

\* the kinds of failure a sale can meet: a missing product, insufficient
\* stock, an UPDATE that changed no row, an error of the store
FailureKinds ==
  {"NotFoundError", "NumberOutOfRangeError", "NotModifiedError", "DatabaseError"}

ReadHandled ==
  /\ req # NULL
  /\ reached
  /\ req.route \in {"GET /api/sale/find/all/:withProducts",
                     "GET /api/sale/find/id/:id", "findSaleById"}

\* C23: after findSales or findSaleById has returned or thrown, every stored
\* product, sale header and join row is what it was before the call, and the
\* call's transaction is committed if it returned and rolled back if it threw.
C23_ReadsChangeNothing ==
  ReadHandled
    => /\ Store = store0
       /\ readTx \in {"committed", "rolledBack"}
       /\ req.route = "findSaleById"
            => (readTx = "committed" <=> reply.success)
       /\ req.route = "GET /api/sale/find/all/:withProducts"
            => (readTx = "committed" <=> reply.statusCode = 200)

\* findSaleById has returned a stored sale of two products with its products
C23_ReadSaleWithProducts ==
  /\ ReadHandled
  /\ req.route = "findSaleById"
  /\ truthy(req.withProducts)
  /\ reply.success
  /\ Cardinality(reply.data.Products.rows) = 2
  /\ readTx = "committed"
  /\ Store = store0

\* the last request was a PUT /api/product/update that reached the service
UpdateHandled ==
  /\ req # NULL
  /\ reached
  /\ req.route = "PUT /api/product/update"

\* the id the body of the last update names (0: none)
UpdateId == IF req.body.keys[1] = "id" THEN req.body.id ELSE 0

\* C24: an update that names no stored product fails with NotFoundError; one
\* whose values equal the stored row's (the UPDATE changes no row) fails with
\* NotModifiedError; one that succeeds has changed exactly its row to the
\* submitted values and returns them; after a NotFoundError or a
\* NotModifiedError the products table is as it was.
C24_UpdateProductOutcomes ==
  UpdateHandled
    => /\ UpdateId \notin DOMAIN store0.catalog => reply.error = "NotFoundError"
       /\ ( /\ UpdateId \in DOMAIN store0.catalog
            /\ store0.catalog[UpdateId] = productRow(req.body) )
            => reply.error = "NotModifiedError"
       /\ reply.success
            => /\ UpdateId \in DOMAIN store0.catalog
               /\ store0.catalog[UpdateId] # productRow(req.body)
               /\ catalog = [store0.catalog EXCEPT ![UpdateId] = productRow(req.body)]
               /\ reply.data = [id |-> UpdateId, row |-> productRow(req.body)]
       /\ reply.error \in {"NotFoundError", "NotModifiedError"}
            => catalog = store0.catalog

\* an update that submitted the values already stored has been refused
C24_UnchangedValuesRefused ==
  /\ UpdateHandled
  /\ UpdateId \in DOMAIN store0.catalog
  /\ store0.catalog[UpdateId] = productRow(req.body)
  /\ reply.error = "NotModifiedError"
  /\ reply.statusCode = NotModifiedStatus
  /\ catalog = store0.catalog

\* the catalog update ran while call c, which names its product, was under way
UpdateOverlaps(c) ==
  /\ req # NULL
  /\ req.route = "PUT /api/product/update"
  /\ c \in req.during
  /\ \E k \in DOMAIN items[c] : items[c][k].id = req.body.id

\* the units call c asked of product id
RECURSIVE UnitsOf(_, _, _)
UnitsOf(c, id, n) ==
  IF n = 0 THEN 0
  ELSE (IF items[c][n].id = id THEN items[c][n].quantity ELSE 0) + UnitsOf(c, id, n - 1)

Repeated(c) ==
  {id \in ProductIds :
     \E j, k \in DOMAIN items[c] : j # k /\ items[c][j].id = id /\ items[c][k].id = id}

C27_NoWriteAfterRollback ==
  [][ /\ \A c \in Calls :
           (err[c] # "none" /\ ~txActive[c] /\ ExecUpdate(c)) => products' = products
      /\ \A c \in Calls :
           Returned(c)' => (outcome'[c] = "committed" <=> err'[c] = "none") ]_vars

\* C28: when the controller's handling of a createSale request has ended,
\* with the sale committed or with serv.createSale having thrown, a response
\* has been sent.
C28_EveryRequestAnswered ==
  \A c \in Calls : Returned(c) => res[c].sent

C30_JoinInsertExecutes ==
  \A c \in Calls :
    (sale[c] # NULL /\ pc[c] \in {"rollback", "done"}) => err[c] # "TypeError"

====
